---- MODULE Spec2Model ----
(***************************************************************************)
(* A model of the UPSC PYQs study tool: the practice page (component Pyqs, *)
(* src/unnamed/part_003) and the submit-all quiz (component Quiz,          *)
(* src/unnamed/part_002).                                                  *)
(*                                                                         *)
(* JavaScript strings are sequences of one-character strings, so that      *)
(* toLowerCase, includes, parseInt and sort are computed as the code       *)
(* computes them.  A JavaScript value held by a decoded row or a question  *)
(* is a record [t, v]: t is "undef", "null", "str" or "num"; v is the      *)
(* string of a "str" and the decimal numeral of a "num".                   *)
(*                                                                         *)
(* One step of the model is one event of the single-threaded event loop:   *)
(* a handler together with every effect React runs before the next event   *)
(* (the dependent useEffect bodies that the handler's state change         *)
(* triggers).  A handler is enabled when the control that calls it is      *)
(* mounted; a `disabled` attribute is part of the guard unless the handler *)
(* repeats the same test itself, in which case the call is allowed and the *)
(* handler's own early return decides.                                     *)
(***************************************************************************)
EXTENDS Integers, Sequences, FiniteSets, TLC

\* ------------------------------------------------------------------ bounds

\* The largest number of data rows a decoded file holds.
MaxRows == 2

\* ------------------------------------------------------------ JS values

Undef == [t |-> "undef", v |-> <<>>]

Null == [t |-> "null", v |-> <<>>]

Str(s) == [t |-> "str", v |-> s]

Num(s) == [t |-> "num", v |-> s]

\* x == null (also true of undefined): the test of `??`, `!= null` and `?.`
IsNullish(x) == x.t \in {"undef", "null"}

\* JavaScript truthiness: '' and 0 are falsy, as are null and undefined.
Truthy(x) ==
    CASE x.t = "str" -> x.v # <<>>
      [] x.t = "num" -> x.v # <<"0">>
      [] OTHER -> FALSE

\* String(x) of a string or a number.
JsString(x) == x.v

\* row.key ?? null
Coalesce(x) == IF IsNullish(x) THEN Null ELSE x

\* x || null
OrNull(x) == IF Truthy(x) THEN x ELSE Null

\* q.key === s for a string s (strict equality: a number never equals a string)
StrictEqualsString(x, s) == x.t = "str" /\ x.v = s

\* ------------------------------------------------------------ JS strings

\* The characters of the model in UTF-16 code-unit order.
CodeOrder ==
    <<"-", "0", "1", "2", "3", "4", "5", "6", "7", "8", "9",
      "A", "B", "C", "D", "P", "S", "T", "a", "b", "c", "d", "x">>

CharCode(c) == CHOOSE i \in 1..Len(CodeOrder) : CodeOrder[i] = c

Digits == <<"0", "1", "2", "3", "4", "5", "6", "7", "8", "9">>

IsDigit(c) == \E i \in 1..Len(Digits) : Digits[i] = c

DigitValue(c) == (CHOOSE i \in 1..Len(Digits) : Digits[i] = c) - 1

LowerChar(c) ==
    CASE c = "A" -> "a" [] c = "B" -> "b" [] c = "C" -> "c" [] c = "D" -> "d"
      [] c = "P" -> "p" [] c = "S" -> "s" [] c = "T" -> "t"
      [] OTHER -> c

UpperChar(c) ==
    CASE c = "a" -> "A" [] c = "b" -> "B" [] c = "c" -> "C" [] c = "d" -> "D"
      [] c = "x" -> "X"
      [] OTHER -> c

\* s.toLowerCase()
ToLowerCase(s) == [i \in 1..Len(s) |-> LowerChar(s[i])]

\* s.toUpperCase()
ToUpperCase(s) == [i \in 1..Len(s) |-> UpperChar(s[i])]

\* hay.includes(needle)
Includes(hay, needle) ==
    \E i \in 0..(Len(hay) - Len(needle)) :
        SubSeq(hay, i + 1, i + Len(needle)) = needle

\* The length of the longest prefix of s made of digits.
RECURSIVE DigitPrefixLen(_)
DigitPrefixLen(s) ==
    IF s = <<>> \/ ~IsDigit(Head(s)) THEN 0 ELSE 1 + DigitPrefixLen(Tail(s))

RECURSIVE DigitsValue(_)
DigitsValue(s) ==
    IF s = <<>> THEN 0 ELSE 10 * DigitsValue(SubSeq(s, 1, Len(s) - 1)) + DigitValue(s[Len(s)])

\* parseInt(s, 10): an optional sign, then the longest run of digits; NaN
\* when there is no digit.  The result is [nan, n].
ParseInt(s) ==
    LET neg == s # <<>> /\ Head(s) = "-"
        body == IF neg THEN Tail(s) ELSE s
        k == DigitPrefixLen(body)
        n == DigitsValue(SubSeq(body, 1, k))
    IN  IF k = 0 THEN [nan |-> TRUE, n |-> 0]
        ELSE [nan |-> FALSE, n |-> IF neg THEN 0 - n ELSE n]

\* a < b in the order of Array.prototype.sort() without a comparator:
\* code unit by code unit, a proper prefix first.
RECURSIVE StringLess(_, _)
StringLess(a, b) ==
    IF b = <<>> THEN FALSE
    ELSE IF a = <<>> THEN TRUE
    ELSE IF Head(a) # Head(b) THEN CharCode(Head(a)) < CharCode(Head(b))
    ELSE StringLess(Tail(a), Tail(b))

\* --------------------------------------------------------- decoded rows

\* The canonical keys transformHeader produces.
RowKeys ==
    {"paper", "subject", "topic", "year", "passage", "question", "option_a",
     "option_b", "option_c", "option_d", "correct_option", "explanation",
     "image_url"}

sP1 == <<"P", "1">>

sP2 == <<"P", "2">>

sS1 == <<"S", "1">>

sS2 == <<"S", "2">>

sT1 == <<"T", "1">>

sT2 == <<"T", "2">>

s2020 == <<"2", "0", "2", "0">>

s2021 == <<"2", "0", "2", "1">>

\* A row whose every column is absent.
BlankRow == [k \in RowKeys |-> Undef]

\* Rows as Papa.parse yields them with header: true and dynamicTyping: true:
\* an empty cell is null, a numeric cell is a number, any other cell a
\* non-empty string.
RowA ==
    [BlankRow EXCEPT
        !.paper = Str(sP1), !.subject = Str(sS1), !.topic = Str(sT1),
        !.year = Num(s2020), !.passage = Null, !.question = Str(<<"A", "b">>),
        !.option_a = Str(<<"a">>), !.option_b = Str(<<"b">>),
        !.option_c = Str(<<"c">>), !.option_d = Str(<<"d">>),
        !.correct_option = Str(<<"A">>), !.explanation = Null,
        !.image_url = Null]

RowB ==
    [BlankRow EXCEPT
        !.paper = Str(sP1), !.subject = Str(sS2), !.topic = Str(sT2),
        !.year = Num(s2021), !.passage = Str(<<"B", "a">>),
        !.question = Str(<<"c">>),
        !.option_a = Str(<<"c">>), !.option_b = Str(<<"d">>),
        !.option_c = Num(<<"0">>), !.option_d = Str(<<"x">>),
        !.correct_option = Str(<<"b">>), !.explanation = Str(<<"x">>),
        !.image_url = Null]

\* A row without Question, Topic and Year values.
RowC ==
    [BlankRow EXCEPT
        !.paper = Str(sP2), !.subject = Str(sS1), !.topic = Null,
        !.year = Null, !.passage = Null, !.question = Null,
        !.option_a = Str(<<"a">>), !.option_b = Str(<<"b">>),
        !.option_c = Str(<<"c">>), !.option_d = Str(<<"d">>),
        !.correct_option = Str(<<"C">>), !.explanation = Null,
        !.image_url = Null]

\* The lines data files are made of, in the order they repeat.
RowCycle == <<RowA, RowB, RowC>>

\* What dynamicTyping: true makes of a cell of the file: a missing cell
\* stays undefined, an empty cell becomes null, a numeral becomes a number,
\* any other text stays a string.  A cell of the file is Undef or Str(text).
DynamicTyping(cell) ==
    IF cell.t = "undef" THEN Undef
    ELSE IF cell.v = <<>> THEN Null
    ELSE IF DigitPrefixLen(cell.v) = Len(cell.v) THEN Num(cell.v)
    ELSE cell

RECURSIVE SeqsUpTo(_, _)
SeqsUpTo(S, n) ==
    IF n = 0 THEN {<<>>}
    ELSE LET shorter == SeqsUpTo(S, n - 1)
         IN  shorter \cup {Append(q, x) : q \in shorter, x \in S}

\* The n rows of a file that begins with line `start` of the cycle.
FileRows(cycle, start, n) ==
    [i \in 1..n |-> cycle[((start + i - 2) % Len(cycle)) + 1]]

\* results.data of a parse: up to MaxRows rows.
DecodedData == {FileRows(RowCycle, start, n) : start \in 1..Len(RowCycle), n \in 0..MaxRows}

\* -------------------------------------------------------- row normalizer

\* ProcessRow as it would be with the array index itself as the id.
ProcessRowZeroBased(row, index) ==
    [id |-> index,
     paper |-> Coalesce(row.paper),
     subject |-> Coalesce(row.subject),
     topic |-> Coalesce(row.topic),
     year |-> IF ~IsNullish(row.year) THEN Str(JsString(row.year)) ELSE Null,
     passage |-> Coalesce(row.passage),
     question |-> Coalesce(row.question),
     option_a |-> Coalesce(row.option_a),
     option_b |-> Coalesce(row.option_b),
     option_c |-> Coalesce(row.option_c),
     option_d |-> Coalesce(row.option_d),
     correct_option |-> Coalesce(row.correct_option),
     explanation |-> Coalesce(row.explanation),
     image_url |-> Coalesce(row.image_url)]

\* The element processedData holds for `row` at 0-based `index`.
ProcessRow(row, index) ==
    [id |-> index + 1,
     paper |-> Coalesce(row.paper),
     subject |-> Coalesce(row.subject),
     topic |-> Coalesce(row.topic),
     year |-> IF ~IsNullish(row.year) THEN Str(JsString(row.year)) ELSE Null,
     passage |-> Coalesce(row.passage),
     question |-> Coalesce(row.question),
     option_a |-> Coalesce(row.option_a),
     option_b |-> Coalesce(row.option_b),
     option_c |-> Coalesce(row.option_c),
     option_d |-> Coalesce(row.option_d),
     correct_option |-> Coalesce(row.correct_option),
     explanation |-> Coalesce(row.explanation),
     image_url |-> Coalesce(row.image_url)]

\* results.data.map((row, index) => ...)
ProcessedData(data) == [i \in 1..Len(data) |-> ProcessRow(data[i], i - 1)]

requiredTransformedKeys ==
    <<"question", "option_a", "option_b", "option_c", "option_d", "correct_option">>

\* requiredTransformedKeys.filter(key => !(key in firstRow) || ... === '')
MissingKeys(firstRow) ==
    LET Missing(key) ==
            firstRow[key].t \in {"undef", "null"} \/ firstRow[key] = Str(<<>>)
    IN  SelectSeq(requiredTransformedKeys, Missing)

\* -------------------------------------------------------------- sorting

\* Array.from(new Set(xs)): the first occurrence of every value, in order.
RECURSIVE Unique(_)
Unique(xs) ==
    IF xs = <<>> THEN <<>>
    ELSE LET rest == Unique(SubSeq(xs, 1, Len(xs) - 1))
             x == xs[Len(xs)]
         IN  IF \E i \in 1..Len(rest) : rest[i] = x THEN rest ELSE Append(rest, x)

\* The comparator of sort() without an argument, on the values' strings.
DefaultLess(a, b) == StringLess(JsString(a), JsString(b))

\* YearLess as it would be with the operands of the subtraction exchanged.
YearLessAscending(a, b) ==
    LET pa == ParseInt(JsString(a))
        pb == ParseInt(JsString(b))
    IN  ~pa.nan /\ ~pb.nan /\ pa.n < pb.n

\* (a, b) => parseInt(b, 10) - parseInt(a, 10) is negative; NaN counts as 0.
YearLess(a, b) ==
    LET pa == ParseInt(JsString(a))
        pb == ParseInt(JsString(b))
    IN  ~pa.nan /\ ~pb.nan /\ pb.n < pa.n

\* x put into the sorted `xs` before the first element it precedes (stable).
InsertDefault(xs, x) ==
    LET after == {i \in 1..Len(xs) : DefaultLess(x, xs[i])}
        k == IF after = {} THEN Len(xs) + 1
             ELSE CHOOSE i \in after : \A j \in after : i <= j
    IN  SubSeq(xs, 1, k - 1) \o <<x>> \o SubSeq(xs, k, Len(xs))

RECURSIVE SortDefault(_)
SortDefault(xs) ==
    IF xs = <<>> THEN <<>>
    ELSE InsertDefault(SortDefault(SubSeq(xs, 1, Len(xs) - 1)), xs[Len(xs)])

InsertYear(xs, x) ==
    LET after == {i \in 1..Len(xs) : YearLess(x, xs[i])}
        k == IF after = {} THEN Len(xs) + 1
             ELSE CHOOSE i \in after : \A j \in after : i <= j
    IN  SubSeq(xs, 1, k - 1) \o <<x>> \o SubSeq(xs, k, Len(xs))

RECURSIVE SortYears(_)
SortYears(xs) ==
    IF xs = <<>> THEN <<>>
    ELSE InsertYear(SortYears(SubSeq(xs, 1, Len(xs) - 1)), xs[Len(xs)])

\* xs.map(q => q[key]).filter(v => !!v)
TruthyValues(qs, key) ==
    LET vals == [i \in 1..Len(qs) |-> qs[i][key]]
    IN  SelectSeq(vals, Truthy)

\* ------------------------------------------------- practice page: state

VARIABLES
    route,                \* the page the router mounted: "pyqs" or "quiz"
    loadPc,               \* fetchAndParseCsv: "fetching" or "done"
    csvData,              \* results.data of the completed parse
    allQuestions,
    isLoadingCsv,
    csvError,
    filters,
    availablePapers,
    availableSubjects,
    availableTopics,
    availableYears,
    searchTerm,
    debouncedSearchTerm,
    timer,                \* the pending debounce timeouts, each the term it holds
    isRandom,
    displayedQuestions,
    currentIndex,
    selectedOption,
    submittedIndices,
    jumpToInput,
    lastStep              \* history: what the last event of the page was

pyqsVars ==
    <<loadPc, csvData, allQuestions, isLoadingCsv, csvError, filters,
      availablePapers, availableSubjects, availableTopics, availableYears,
      searchTerm, debouncedSearchTerm, timer, isRandom, displayedQuestions,
      currentIndex, selectedOption, submittedIndices, jumpToInput, lastStep>>

\* The quiz: the state of component Quiz.
VARIABLES
    quizPc,               \* Papa.parse(file): "idle" or "parsing"
    uploads,              \* the number of Papa.parse(file) calls made so far
    pending,              \* the calls, by number, whose callback has not run
    applied,              \* the call whose callback last set state, 0 for none
    quizData,             \* results.data of the completed parse
    quizState,
    isLoading,
    error

quizVars == <<quizPc, uploads, pending, applied, quizData, quizState, isLoading, error>>

vars == <<route, pyqsVars, quizVars>>

\* csvError === null
NoError == [kind |-> "none", keys |-> <<>>]

\* selectedOption === null
NoOption == "null"

\* The letters of the option list the page renders.
OptionLetters == {"A", "B", "C", "D"}

EmptyFilters ==
    [paper |-> <<>>, subject |-> <<>>, topic |-> <<>>, year |-> <<>>, id |-> <<>>]

\* ------------------------------------------------- practice page: facets

\* isLoadingCsv || csvError || allQuestions.length === 0
NothingLoaded(all, loading, err) == loading \/ err # NoError \/ Len(all) = 0

PapersOf(all, loading, err) ==
    IF NothingLoaded(all, loading, err) THEN <<>>
    ELSE SortDefault(Unique(TruthyValues(all, "paper")))

YearsOf(all, loading, err) ==
    IF NothingLoaded(all, loading, err) THEN <<>>
    ELSE SortYears(Unique(TruthyValues(all, "year")))

\* allQuestions.filter(q => q[key] === value)
WhereEquals(qs, key, value) ==
    LET Test(q) == StrictEqualsString(q[key], value)
    IN  SelectSeq(qs, Test)

\* SubjectsOf as it would be if the branch for a selected paper collected
\* the topic values.
SubjectsOfCollectsTopics(all, loading, err, f) ==
    IF NothingLoaded(all, loading, err) THEN <<>>
    ELSE IF f.paper = <<>> THEN SortDefault(Unique(TruthyValues(all, "subject")))
    ELSE SortDefault(Unique(TruthyValues(WhereEquals(all, "paper", f.paper), "topic")))

\* SubjectsOf as it would be without the branch for a selected paper.
SubjectsOfIgnoresPaper(all, loading, err, f) ==
    IF NothingLoaded(all, loading, err) THEN <<>>
    ELSE SortDefault(Unique(TruthyValues(all, "subject")))

SubjectsOf(all, loading, err, f) ==
    IF NothingLoaded(all, loading, err) THEN <<>>
    ELSE IF f.paper = <<>> THEN SortDefault(Unique(TruthyValues(all, "subject")))
    ELSE SortDefault(Unique(TruthyValues(WhereEquals(all, "paper", f.paper), "subject")))

\* TopicsOf as it would be without the branch for a selected subject.
TopicsOfIgnoresSubject(all, loading, err, f) ==
    IF NothingLoaded(all, loading, err) THEN <<>>
    ELSE LET paperFilteredQuestions ==
                 IF f.paper # <<>> THEN WhereEquals(all, "paper", f.paper) ELSE all
         IN  SortDefault(Unique(TruthyValues(paperFilteredQuestions, "topic")))

TopicsOf(all, loading, err, f) ==
    IF NothingLoaded(all, loading, err) THEN <<>>
    ELSE LET paperFilteredQuestions ==
                 IF f.paper # <<>> THEN WhereEquals(all, "paper", f.paper) ELSE all
         IN  IF f.subject = <<>>
             THEN SortDefault(Unique(TruthyValues(paperFilteredQuestions, "topic")))
             ELSE SortDefault(Unique(TruthyValues(
                      WhereEquals(paperFilteredQuestions, "subject", f.subject), "topic")))

\* The effects that derive the subject and topic lists: they run when
\* filters.paper or filters.subject changed, and after a load.
DeriveSubjectsAndTopics(all, loading, err, f) ==
    /\ availableSubjects' = SubjectsOf(all, loading, err, f)
    /\ availableTopics' = TopicsOf(all, loading, err, f)

\* The effect that derives the paper and year lists, run after a load,
\* followed by the two above.
DeriveOptions(all, loading, err, f) ==
    /\ availablePapers' = PapersOf(all, loading, err)
    /\ availableYears' = YearsOf(all, loading, err)
    /\ DeriveSubjectsAndTopics(all, loading, err, f)

\* --------------------------------------------- practice page: view filter

\* String(q[key] || '')
TextOf(x) == IF Truthy(x) THEN JsString(x) ELSE <<>>

SearchedKeys ==
    {"question", "passage", "option_a", "option_b", "option_c", "option_d",
     "explanation"}

MatchesSearch(q, term) ==
    LET lowerSearchTerm == ToLowerCase(term)
    IN  \E key \in SearchedKeys : Includes(ToLowerCase(TextOf(q[key])), lowerSearchTerm)

\* FacetStep as it would be without its year test.
FacetStepWithoutYear(all, f) ==
    LET byPaper == IF f.paper # <<>> THEN WhereEquals(all, "paper", f.paper) ELSE all
        bySubject ==
            IF f.subject # <<>> THEN WhereEquals(byPaper, "subject", f.subject)
            ELSE byPaper
    IN  IF f.topic # <<>> THEN WhereEquals(bySubject, "topic", f.topic) ELSE bySubject

FacetStep(all, f) ==
    LET byPaper == IF f.paper # <<>> THEN WhereEquals(all, "paper", f.paper) ELSE all
        bySubject ==
            IF f.subject # <<>> THEN WhereEquals(byPaper, "subject", f.subject)
            ELSE byPaper
        byTopic ==
            IF f.topic # <<>> THEN WhereEquals(bySubject, "topic", f.topic)
            ELSE bySubject
    IN  IF f.year # <<>> THEN WhereEquals(byTopic, "year", f.year) ELSE byTopic

\* IdStep as it would be if the id were the first of a range.
IdStepFromId(qs, f) ==
    LET searchId == ParseInt(f.id)
        Test(q) == q.id >= searchId.n
    IN  IF f.id # <<>> /\ ~searchId.nan THEN SelectSeq(qs, Test) ELSE qs

IdStep(qs, f) ==
    LET searchId == ParseInt(f.id)
        Test(q) == q.id = searchId.n
    IN  IF f.id # <<>> /\ ~searchId.nan THEN SelectSeq(qs, Test) ELSE qs

\* SearchStep as it would be if the search ran over the whole collection
\* instead of the list filtered so far.
SearchStepOverCollection(qs, term) ==
    LET Test(q) == MatchesSearch(q, term)
    IN  IF term # <<>> THEN SelectSeq(allQuestions, Test) ELSE qs

SearchStep(qs, term) ==
    LET Test(q) == MatchesSearch(q, term)
    IN  IF term # <<>> THEN SelectSeq(qs, Test) ELSE qs

\* The list updateDisplayedQuestions builds before the randomize step.
Filtered(all, f, term) == SearchStep(IdStep(FacetStep(all, f), f), term)

\* Swap as it would be if the second assignment of the exchange were lost.
SwapOverwrites(xs, i, j) == [xs EXCEPT ![i] = xs[j]]

Swap(xs, i, j) == [xs EXCEPT ![i] = xs[j], ![j] = xs[i]]

\* The arrays the loop of shuffleArray can leave, from position currentIndex
\* down: randomIndex is any of 0..currentIndex-1 (sequence positions are
\* the array's plus one).
RECURSIVE ShuffleFrom(_, _)
ShuffleFrom(newArray, cur) ==
    IF cur = 0 THEN {newArray}
    ELSE UNION {ShuffleFrom(Swap(newArray, cur, randomIndex + 1), cur - 1) :
                    randomIndex \in 0..(cur - 1)}

shuffleArray(array) == ShuffleFrom(array, Len(array))

\* The values setDisplayedQuestions can receive.
DisplayedChoices(all, loading, err, f, term, rnd) ==
    IF NothingLoaded(all, loading, err) THEN {<<>>}
    ELSE IF rnd THEN shuffleArray(Filtered(all, f, term))
    ELSE {Filtered(all, f, term)}

\* ResetSession as it would be if the submitted set survived a recomputation.
ResetSessionKeepsSubmitted ==
    /\ currentIndex' = 0
    /\ selectedOption' = NoOption
    /\ UNCHANGED submittedIndices
    /\ jumpToInput' = <<>>

\* The tail of updateDisplayedQuestions, common to both of its branches.
ResetSession ==
    /\ currentIndex' = 0
    /\ selectedOption' = NoOption
    /\ submittedIndices' = {}
    /\ jumpToInput' = <<>>

\* History of an event that made updateDisplayedQuestions run: its kind,
\* whether the new displayed set holds a question that was submitted in the
\* view it replaces, and whether the event emptied a subject or topic
\* selection it was not aimed at.
Recomputed(kind, f) ==
    lastStep' =
        [kind |-> kind,
         carried |->
            \E p \in submittedIndices :
                /\ p + 1 \in DOMAIN displayedQuestions
                /\ \E j \in DOMAIN displayedQuestions' :
                       displayedQuestions'[j].id = displayedQuestions[p + 1].id,
         cascaded |->
            \E name \in {"subject", "topic"} :
                name # kind /\ filters[name] # <<>> /\ f[name] = <<>>]

\* History of any other event.
Quiet == [kind |-> "other", carried |-> FALSE, cascaded |-> FALSE]

\* updateDisplayedQuestions, run by its effect on the new state.
UpdateDisplayedQuestions(all, loading, err, f, term, rnd) ==
    /\ displayedQuestions' \in DisplayedChoices(all, loading, err, f, term, rnd)
    /\ ResetSession

\* ------------------------------------------- practice page: user inputs

\* What the user types into the search box.
SearchInputs == {<<>>, <<"B", "a">>}

\* What the user types into the Search ID box.
IdInputs == {<<>>, <<"2">>, <<"9">>}

\* The decimal numeral of n.
RECURSIVE Numeral(_)
Numeral(n) ==
    IF n < 10 THEN <<Digits[n + 1]>> ELSE Append(Numeral(n \div 10), Digits[(n % 10) + 1])

\* What the user types into the Go to box.
JumpInputs == {<<>>, Numeral(0), Numeral(1), Numeral(MaxRows), Numeral(MaxRows + 1)}

\* ---------------------------------------------- practice page: mounting

\* The filter selects are rendered.
FiltersMounted == ~isLoadingCsv /\ csvError = NoError /\ Len(allQuestions) > 0

\* The search box and the Random Order checkbox are enabled.
SearchEnabled == ~isLoadingCsv /\ csvError = NoError /\ Len(allQuestions) # 0

\* currentQuestion is not null or undefined.
HasCurrentQuestion ==
    Len(displayedQuestions) > 0 /\ currentIndex \in 0..(Len(displayedQuestions) - 1)

\* The single question display area is rendered.
QuestionMounted == ~isLoadingCsv /\ csvError = NoError /\ HasCurrentQuestion

totalFilteredQuestions == Len(displayedQuestions)

\* The value attributes of the options a select renders for a list.
OptionValues(options) == {<<>>} \cup {JsString(options[i]) : i \in 1..Len(options)}

\* The control named `name` is mounted and enabled and can report `value`.
ControlOffers(name, value) ==
    CASE name = "paper" -> FiltersMounted /\ value \in OptionValues(availablePapers)
      [] name = "subject" ->
            /\ FiltersMounted
            /\ Len(availableSubjects) # 0
            /\ value \in OptionValues(availableSubjects)
      [] name = "topic" ->
            /\ FiltersMounted
            /\ Len(availableTopics) # 0
            /\ value \in OptionValues(availableTopics)
      [] name = "year" -> FiltersMounted /\ value \in OptionValues(availableYears)
      [] name = "id" -> QuestionMounted /\ value \in IdInputs

FilterNames == {"paper", "subject", "topic", "year", "id"}

AllValues == UNION {OptionValues(availablePapers), OptionValues(availableSubjects),
                    OptionValues(availableTopics), OptionValues(availableYears),
                    IdInputs}

\* ------------------------------------------------ practice page: loading

loadVars == <<loadPc, csvData, allQuestions, isLoadingCsv, csvError>>

optionVars == <<availablePapers, availableSubjects, availableTopics, availableYears>>

searchVars == <<searchTerm, debouncedSearchTerm, timer>>

sessionVars == <<currentIndex, selectedOption, submittedIndices, jumpToInput>>

\* ParseOutcome as it would be if the rows were stored before the first-row
\* check rejected them.
ParseOutcomeKeepsRows(data, hasErrors) ==
    IF hasErrors THEN [all |-> <<>>, err |-> [kind |-> "parse", keys |-> <<>>]]
    ELSE IF Len(data) = 0 THEN [all |-> <<>>, err |-> [kind |-> "nodata", keys |-> <<>>]]
    ELSE IF Len(MissingKeys(data[1])) > 0
         THEN [all |-> ProcessedData(data),
               err |-> [kind |-> "missing", keys |-> MissingKeys(data[1])]]
    ELSE [all |-> ProcessedData(data), err |-> NoError]

\* What the complete callback leaves in [allQuestions, csvError] for results
\* with the given data and with or without parse errors.
ParseOutcome(data, hasErrors) ==
    IF hasErrors THEN [all |-> <<>>, err |-> [kind |-> "parse", keys |-> <<>>]]
    ELSE IF Len(data) = 0 THEN [all |-> <<>>, err |-> [kind |-> "nodata", keys |-> <<>>]]
    ELSE IF Len(MissingKeys(data[1])) > 0
         THEN [all |-> <<>>, err |-> [kind |-> "missing", keys |-> MissingKeys(data[1])]]
    ELSE [all |-> ProcessedData(data), err |-> NoError]

\* The effects that follow a change of allQuestions, isLoadingCsv or csvError.
LoadEffects(all, err) ==
    /\ DeriveOptions(all, FALSE, err, filters)
    /\ UpdateDisplayedQuestions(all, FALSE, err, filters, debouncedSearchTerm, isRandom)
    /\ Recomputed("load", filters)

\* fetch fails, the response is not ok, or the text is empty: the catch block.
FetchFails ==
    /\ route = "pyqs"
    /\ loadPc = "fetching"
    /\ loadPc' = "done"
    /\ csvError' = [kind |-> "load", keys |-> <<>>]
    /\ allQuestions' = <<>>
    /\ isLoadingCsv' = FALSE
    /\ LoadEffects(<<>>, csvError')
    /\ UNCHANGED <<route, quizVars, csvData, filters, searchVars, isRandom>>

\* ParseComplete as it would be if the branch for parse errors returned
\* without setIsLoadingCsv(false).
ParseCompleteKeepsLoading(data, hasErrors) ==
    /\ route = "pyqs"
    /\ loadPc = "fetching"
    /\ loadPc' = "done"
    /\ csvData' = data
    /\ allQuestions' = ParseOutcome(data, hasErrors).all
    /\ csvError' = ParseOutcome(data, hasErrors).err
    /\ isLoadingCsv' = hasErrors
    /\ DeriveOptions(allQuestions', isLoadingCsv', csvError', filters)
    /\ UpdateDisplayedQuestions(allQuestions', isLoadingCsv', csvError', filters,
                                debouncedSearchTerm, isRandom)
    /\ Recomputed("load", filters)
    /\ UNCHANGED <<route, quizVars, filters, searchVars, isRandom>>

\* ParseComplete as it would be if the lists and the displayed set were
\* derived from the decoded rows before the rows are checked.
ParseCompleteDerivesUnchecked(data, hasErrors) ==
    /\ route = "pyqs"
    /\ loadPc = "fetching"
    /\ loadPc' = "done"
    /\ csvData' = data
    /\ allQuestions' = ParseOutcome(data, hasErrors).all
    /\ csvError' = ParseOutcome(data, hasErrors).err
    /\ isLoadingCsv' = FALSE
    /\ DeriveOptions(ProcessedData(data), FALSE, NoError, filters)
    /\ UpdateDisplayedQuestions(ProcessedData(data), FALSE, NoError, filters,
                                debouncedSearchTerm, isRandom)
    /\ Recomputed("load", filters)
    /\ UNCHANGED <<route, quizVars, filters, searchVars, isRandom>>

\* Papa.parse calls complete with results.
ParseComplete(data, hasErrors) ==
    /\ route = "pyqs"
    /\ loadPc = "fetching"
    /\ loadPc' = "done"
    /\ csvData' = data
    /\ allQuestions' = ParseOutcome(data, hasErrors).all
    /\ csvError' = ParseOutcome(data, hasErrors).err
    /\ isLoadingCsv' = FALSE
    /\ LoadEffects(allQuestions', csvError')
    /\ UNCHANGED <<route, quizVars, filters, searchVars, isRandom>>

\* ----------------------------------------------- practice page: handlers

\* NewFilters as it would be if a paper change left the topic alone.
NewFiltersPaperKeepsTopic(prevFilters, name, value) ==
    LET newFilters == [prevFilters EXCEPT ![name] = value]
    IN  IF name = "paper" THEN [newFilters EXCEPT !.subject = <<>>]
        ELSE IF name = "subject" THEN [newFilters EXCEPT !.topic = <<>>]
        ELSE newFilters

\* NewFilters as it would be without the subject branch.
NewFiltersSubjectKeepsTopic(prevFilters, name, value) ==
    LET newFilters == [prevFilters EXCEPT ![name] = value]
    IN  IF name = "paper" THEN [newFilters EXCEPT !.subject = <<>>, !.topic = <<>>]
        ELSE newFilters

\* The object handleFilterChange hands to setFilters.
NewFilters(prevFilters, name, value) ==
    LET newFilters == [prevFilters EXCEPT ![name] = value]
    IN  IF name = "paper" THEN [newFilters EXCEPT !.subject = <<>>, !.topic = <<>>]
        ELSE IF name = "subject" THEN [newFilters EXCEPT !.topic = <<>>]
        ELSE newFilters

\* handleFilterChange as it would be if the paper and year lists were
\* derived from the questions the facet selections keep.
handleFilterChangeNarrowsLists(name, value) ==
    /\ route = "pyqs"
    /\ ControlOffers(name, value)
    /\ value # filters[name]
    /\ filters' = NewFilters(filters, name, value)
    /\ IF name \in {"paper", "subject"}
       THEN DeriveSubjectsAndTopics(allQuestions, isLoadingCsv, csvError, filters')
       ELSE UNCHANGED <<availableSubjects, availableTopics>>
    /\ availablePapers' = PapersOf(FacetStep(allQuestions, filters'), isLoadingCsv, csvError)
    /\ availableYears' = YearsOf(FacetStep(allQuestions, filters'), isLoadingCsv, csvError)
    /\ UpdateDisplayedQuestions(allQuestions, isLoadingCsv, csvError, filters',
                                debouncedSearchTerm, isRandom)
    /\ Recomputed(name, filters')
    /\ UNCHANGED <<route, quizVars, loadVars, searchVars, isRandom>>

handleFilterChange(name, value) ==
    /\ route = "pyqs"
    /\ ControlOffers(name, value)
    /\ value # filters[name]
    /\ filters' = NewFilters(filters, name, value)
    /\ IF name \in {"paper", "subject"}
       THEN DeriveSubjectsAndTopics(allQuestions, isLoadingCsv, csvError, filters')
       ELSE UNCHANGED <<availableSubjects, availableTopics>>
    /\ UNCHANGED <<availablePapers, availableYears>>
    /\ UpdateDisplayedQuestions(allQuestions, isLoadingCsv, csvError, filters',
                                debouncedSearchTerm, isRandom)
    /\ Recomputed(name, filters')
    /\ UNCHANGED <<route, quizVars, loadVars, searchVars, isRandom>>

\* handleSearchChange as it would be if the debounce effect set no new
\* timeout while one is pending.
handleSearchChangeKeepsTimer(value) ==
    /\ route = "pyqs"
    /\ lastStep' = Quiet
    /\ SearchEnabled
    /\ value # searchTerm
    /\ searchTerm' = value
    /\ timer' = IF timer = <<>> THEN <<value>> ELSE timer
    /\ UNCHANGED <<route, quizVars, loadVars, filters, optionVars, debouncedSearchTerm, isRandom,
                   displayedQuestions, sessionVars>>

\* handleSearchChange as it would be if the debounce effect had no cleanup:
\* the pending timeout stays and a new one is set behind it.
handleSearchChangeQueuesTimer(value) ==
    /\ route = "pyqs"
    /\ lastStep' = Quiet
    /\ SearchEnabled
    /\ value # searchTerm
    /\ searchTerm' = value
    /\ timer' = Append(timer, value)
    /\ UNCHANGED <<route, quizVars, loadVars, filters, optionVars, debouncedSearchTerm, isRandom,
                   displayedQuestions, sessionVars>>

\* handleSearchChange, and the debounce effect: the pending timeout is
\* cleared and a new one set that holds the new term.
handleSearchChange(value) ==
    /\ route = "pyqs"
    /\ lastStep' = Quiet
    /\ SearchEnabled
    /\ value # searchTerm
    /\ searchTerm' = value
    /\ timer' = <<value>>
    /\ UNCHANGED <<route, quizVars, loadVars, filters, optionVars, debouncedSearchTerm, isRandom,
                   displayedQuestions, sessionVars>>

\* The debounce timeout fires: setDebouncedSearchTerm(searchTerm) with the
\* term the timeout was set with.  An equal term changes no state, so no
\* effect runs.  The timeout that fires is the oldest one pending.
DebounceFires ==
    /\ route = "pyqs"
    /\ timer # <<>>
    /\ timer' = Tail(timer)
    /\ debouncedSearchTerm' = timer[1]
    /\ IF timer[1] # debouncedSearchTerm
       THEN /\ UpdateDisplayedQuestions(allQuestions, isLoadingCsv, csvError, filters,
                                        timer[1], isRandom)
            /\ Recomputed("search", filters)
       ELSE UNCHANGED <<displayedQuestions, sessionVars>> /\ lastStep' = Quiet
    /\ UNCHANGED <<route, quizVars, loadVars, filters, optionVars, searchTerm, isRandom>>

\* handleRandomToggle as it would be if the shuffle ran on the collection
\* itself instead of on a copy.
handleRandomToggleShufflesCollection ==
    /\ route = "pyqs"
    /\ SearchEnabled
    /\ isRandom' = ~isRandom
    /\ allQuestions' \in (IF isRandom' THEN shuffleArray(allQuestions) ELSE {allQuestions})
    /\ UpdateDisplayedQuestions(allQuestions', isLoadingCsv, csvError, filters,
                                debouncedSearchTerm, FALSE)
    /\ Recomputed("random", filters)
    /\ UNCHANGED <<route, quizVars, loadPc, csvData, isLoadingCsv, csvError, filters,
                   optionVars, searchVars>>

handleRandomToggle ==
    /\ route = "pyqs"
    /\ SearchEnabled
    /\ isRandom' = ~isRandom
    /\ UpdateDisplayedQuestions(allQuestions, isLoadingCsv, csvError, filters,
                                debouncedSearchTerm, isRandom')
    /\ Recomputed("random", filters)
    /\ UNCHANGED <<route, quizVars, loadVars, filters, optionVars, searchVars>>

\* handleOptionSelect as it would be without its test of submittedIndices.
handleOptionSelectUnguarded(option) ==
    /\ route = "pyqs"
    /\ lastStep' = Quiet
    /\ QuestionMounted
    /\ selectedOption' = option
    /\ UNCHANGED <<route, quizVars, loadVars, filters, optionVars, searchVars, isRandom,
                   displayedQuestions, currentIndex, submittedIndices, jumpToInput>>

handleOptionSelect(option) ==
    /\ route = "pyqs"
    /\ lastStep' = Quiet
    /\ QuestionMounted
    /\ IF currentIndex \notin submittedIndices
       THEN selectedOption' = option
       ELSE UNCHANGED selectedOption
    /\ UNCHANGED <<route, quizVars, loadVars, filters, optionVars, searchVars, isRandom,
                   displayedQuestions, currentIndex, submittedIndices, jumpToInput>>

\* handleSubmit as it would be without its test of selectedOption.
handleSubmitWithoutSelection ==
    /\ route = "pyqs"
    /\ lastStep' = Quiet
    /\ QuestionMounted
    /\ IF currentIndex \notin submittedIndices
       THEN submittedIndices' = submittedIndices \cup {currentIndex}
       ELSE UNCHANGED submittedIndices
    /\ UNCHANGED <<route, quizVars, loadVars, filters, optionVars, searchVars, isRandom,
                   displayedQuestions, currentIndex, selectedOption, jumpToInput>>

\* handleSubmit as it would be if it stored the displayed number of the
\* question (currentIndex + 1) instead of its position.
handleSubmitOneBased ==
    /\ route = "pyqs"
    /\ lastStep' = Quiet
    /\ QuestionMounted
    /\ IF selectedOption # NoOption /\ currentIndex \notin submittedIndices
       THEN submittedIndices' = submittedIndices \cup {currentIndex + 1}
       ELSE UNCHANGED submittedIndices
    /\ UNCHANGED <<route, quizVars, loadVars, filters, optionVars, searchVars, isRandom,
                   displayedQuestions, currentIndex, selectedOption, jumpToInput>>

handleSubmit ==
    /\ route = "pyqs"
    /\ lastStep' = Quiet
    /\ QuestionMounted
    /\ IF selectedOption # NoOption /\ currentIndex \notin submittedIndices
       THEN submittedIndices' = submittedIndices \cup {currentIndex}
       ELSE UNCHANGED submittedIndices
    /\ UNCHANGED <<route, quizVars, loadVars, filters, optionVars, searchVars, isRandom,
                   displayedQuestions, currentIndex, selectedOption, jumpToInput>>

\* handlePrevious as it would be without its test of position 0.
handlePreviousUnclamped ==
    /\ route = "pyqs"
    /\ lastStep' = Quiet
    /\ QuestionMounted
    /\ currentIndex' = currentIndex - 1
    /\ selectedOption' = NoOption
    /\ UNCHANGED <<route, quizVars, loadVars, filters, optionVars, searchVars, isRandom,
                   displayedQuestions, submittedIndices, jumpToInput>>

handlePrevious ==
    /\ route = "pyqs"
    /\ lastStep' = Quiet
    /\ QuestionMounted
    /\ IF currentIndex > 0
       THEN currentIndex' = currentIndex - 1 /\ selectedOption' = NoOption
       ELSE UNCHANGED <<currentIndex, selectedOption>>
    /\ UNCHANGED <<route, quizVars, loadVars, filters, optionVars, searchVars, isRandom,
                   displayedQuestions, submittedIndices, jumpToInput>>

\* handleNext as it would be without its test of the last position.
handleNextUnclamped ==
    /\ route = "pyqs"
    /\ lastStep' = Quiet
    /\ QuestionMounted
    /\ currentIndex' = currentIndex + 1
    /\ selectedOption' = NoOption
    /\ UNCHANGED <<route, quizVars, loadVars, filters, optionVars, searchVars, isRandom,
                   displayedQuestions, submittedIndices, jumpToInput>>

\* handleNext as it would be without its setSelectedOption(null).
handleNextKeepsSelection ==
    /\ route = "pyqs"
    /\ lastStep' = Quiet
    /\ QuestionMounted
    /\ IF currentIndex < Len(displayedQuestions) - 1
       THEN currentIndex' = currentIndex + 1 /\ UNCHANGED selectedOption
       ELSE UNCHANGED <<currentIndex, selectedOption>>
    /\ UNCHANGED <<route, quizVars, loadVars, filters, optionVars, searchVars, isRandom,
                   displayedQuestions, submittedIndices, jumpToInput>>

handleNext ==
    /\ route = "pyqs"
    /\ lastStep' = Quiet
    /\ QuestionMounted
    /\ IF currentIndex < Len(displayedQuestions) - 1
       THEN currentIndex' = currentIndex + 1 /\ selectedOption' = NoOption
       ELSE UNCHANGED <<currentIndex, selectedOption>>
    /\ UNCHANGED <<route, quizVars, loadVars, filters, optionVars, searchVars, isRandom,
                   displayedQuestions, submittedIndices, jumpToInput>>

\* The Go to box is disabled when there is at most one question.
JumpEnabled == QuestionMounted /\ totalFilteredQuestions > 1

handleJumpInputChange(value) ==
    /\ route = "pyqs"
    /\ lastStep' = Quiet
    /\ JumpEnabled
    /\ value # jumpToInput
    /\ jumpToInput' = value
    /\ UNCHANGED <<route, quizVars, loadVars, filters, optionVars, searchVars, isRandom,
                   displayedQuestions, currentIndex, selectedOption, submittedIndices>>

\* JumpTarget as it would be with `<=` for `<` in the upper test.
JumpTargetOffByOne(input, total) ==
    LET parsed == ParseInt(input)
        targetIndex == parsed.n - 1
    IN  [ok |-> ~parsed.nan /\ targetIndex >= 0 /\ targetIndex <= total,
         targetIndex |-> targetIndex]

\* The target handleJumpTo accepts, as [ok, targetIndex].
JumpTarget(input, total) ==
    LET parsed == ParseInt(input)
        targetIndex == parsed.n - 1
    IN  [ok |-> ~parsed.nan /\ targetIndex >= 0 /\ targetIndex < total,
         targetIndex |-> targetIndex]

\* handleJumpTo as it would be if a jump started the session afresh.
handleJumpToClearsSubmitted ==
    /\ route = "pyqs"
    /\ lastStep' = Quiet
    /\ JumpEnabled
    /\ LET target == JumpTarget(jumpToInput, Len(displayedQuestions))
       IN  IF target.ok
           THEN /\ currentIndex' = target.targetIndex
                /\ selectedOption' = NoOption
                /\ submittedIndices' = {}
                /\ UNCHANGED jumpToInput
           ELSE /\ jumpToInput' = <<>>
                /\ UNCHANGED <<currentIndex, selectedOption, submittedIndices>>
    /\ UNCHANGED <<route, quizVars, loadVars, filters, optionVars, searchVars, isRandom,
                   displayedQuestions>>

\* handleJumpTo, from the Go button or from Enter in the Go to box.
handleJumpTo ==
    /\ route = "pyqs"
    /\ lastStep' = Quiet
    /\ JumpEnabled
    /\ LET target == JumpTarget(jumpToInput, Len(displayedQuestions))
       IN  IF target.ok
           THEN /\ currentIndex' = target.targetIndex
                /\ selectedOption' = NoOption
                /\ UNCHANGED jumpToInput
           ELSE /\ jumpToInput' = <<>>
                /\ UNCHANGED <<currentIndex, selectedOption>>
    /\ UNCHANGED <<route, quizVars, loadVars, filters, optionVars, searchVars, isRandom,
                   displayedQuestions, submittedIndices>>

\* ------------------------------------------------------------ quiz: rows

\* The header names the quiz reads.
QuizKeys ==
    {"Paper", "Passage", "Question", "Option A", "Option B", "Option C",
     "Option D", "Correct Answer", "Explanation", "Subject", "Topic", "Year"}

\* Rows as Papa.parse yields them with header: true alone: every cell is a
\* string, possibly empty; a cell missing from a short line is undefined.
QuizBlankRow == [k \in QuizKeys |-> Undef]

QuizRowA ==
    [k \in QuizKeys |->
        CASE k = "Question" -> Str(<<"A", "\\", "n", "b">>)
          [] k = "Correct Answer" -> Str(<<"A">>)
          [] k = "Explanation" -> Str(<<>>)
          [] OTHER -> Str(<<"a">>)]

QuizRowB ==
    [k \in QuizKeys |->
        CASE k = "Correct Answer" -> Str(<<"b">>)
          [] k = "Passage" -> Str(<<>>)
          [] OTHER -> Str(<<"b">>)]

\* A line whose Correct Answer cell is empty.
QuizRowC ==
    [k \in QuizKeys |->
        CASE k = "Correct Answer" -> Str(<<>>)
          [] OTHER -> Str(<<"c">>)]

\* The empty last line of a file: one empty cell and nothing else.
QuizRowD == [QuizBlankRow EXCEPT !["Paper"] = Str(<<>>)]

QuizRowPool == {QuizRowA, QuizRowB, QuizRowC, QuizRowD}

QuizDecodedData == SeqsUpTo(QuizRowPool, MaxRows)

\* s.replace(/\\n/g, '\n'): every backslash followed by n becomes a line break.
RECURSIVE ReplaceEscapes(_)
ReplaceEscapes(s) ==
    IF Len(s) >= 2 /\ s[1] = "\\" /\ s[2] = "n"
    THEN <<"\n">> \o ReplaceEscapes(SubSeq(s, 3, Len(s)))
    ELSE IF s = <<>> THEN <<>>
    ELSE <<Head(s)>> \o ReplaceEscapes(Tail(s))

\* QuizField as it would be with `??` for `||`.
QuizFieldKeepsEmpty(cell) ==
    IF IsNullish(cell) THEN Null ELSE Coalesce(Str(ReplaceEscapes(cell.v)))

\* cell?.replace(/\\n/g, '\n') || null
QuizField(cell) ==
    IF IsNullish(cell) THEN Null ELSE OrNull(Str(ReplaceEscapes(cell.v)))

QuizProcessRow(row, index) ==
    [id |-> index + 1,
     paper |-> QuizField(row["Paper"]),
     passage |-> QuizField(row["Passage"]),
     question |-> QuizField(row["Question"]),
     option_a |-> QuizField(row["Option A"]),
     option_b |-> QuizField(row["Option B"]),
     option_c |-> QuizField(row["Option C"]),
     option_d |-> QuizField(row["Option D"]),
     correct_option |-> QuizField(row["Correct Answer"]),
     explanation |-> QuizField(row["Explanation"]),
     subject |-> QuizField(row["Subject"]),
     topic |-> QuizField(row["Topic"]),
     year |-> QuizField(row["Year"])]

QuizQuestions(data) == [i \in 1..Len(data) |-> QuizProcessRow(data[i], i - 1)]

\* --------------------------------------------------------- quiz: handlers

\* The state useState and the complete callback build around `questions`.
FreshQuizState(questions) ==
    [questions |-> questions, currentIndex |-> 0, selectedAnswers |-> <<>>,
     submitted |-> FALSE, score |-> 0]

\* error === null
NoQuizError == "null"

\* The most files the user picks in one visit of the quiz.
MaxUploads == 2

\* handleFileUpload as it would be if the file input were not disabled
\* while a file is loading.
handleFileUploadWhileLoading ==
    /\ route = "quiz"
    /\ Len(quizState.questions) = 0
    /\ uploads < MaxUploads
    /\ isLoading' = TRUE
    /\ error' = NoQuizError
    /\ quizPc' = "parsing"
    /\ uploads' = uploads + 1
    /\ pending' = pending \cup {uploads + 1}
    /\ UNCHANGED <<route, pyqsVars, applied, quizData, quizState>>

\* The file input is rendered and enabled, and the user picks a file.
handleFileUpload ==
    /\ route = "quiz"
    /\ Len(quizState.questions) = 0
    /\ ~isLoading
    /\ uploads < MaxUploads
    /\ isLoading' = TRUE
    /\ error' = NoQuizError
    /\ quizPc' = "parsing"
    /\ uploads' = uploads + 1
    /\ pending' = pending \cup {uploads + 1}
    /\ UNCHANGED <<route, pyqsVars, applied, quizData, quizState>>

\* Papa.parse calls complete with results.
QuizParseComplete(data) ==
    /\ route = "quiz"
    /\ quizPc = "parsing"
    /\ \E call \in pending :
           /\ pending' = pending \ {call}
           /\ applied' = call
    /\ quizPc' = IF pending' = {} THEN "idle" ELSE "parsing"
    /\ quizData' = data
    /\ quizState' = FreshQuizState(QuizQuestions(data))
    /\ isLoading' = FALSE
    /\ UNCHANGED <<route, pyqsVars, uploads, error>>

\* Papa.parse calls error: the file could not be read.
QuizParseError ==
    /\ route = "quiz"
    /\ quizPc = "parsing"
    /\ \E call \in pending :
           /\ pending' = pending \ {call}
           /\ applied' = call
    /\ quizPc' = IF pending' = {} THEN "idle" ELSE "parsing"
    /\ error' = "Error reading CSV file"
    /\ isLoading' = FALSE
    /\ UNCHANGED <<route, pyqsVars, uploads, quizData, quizState>>

\* selected[index], undefined when the position has no entry.
AnswerAt(selected, index) ==
    IF index \in DOMAIN selected THEN Str(<<selected[index]>>) ELSE Undef

\* x?.toUpperCase()
OptionalUpper(x) == IF IsNullish(x) THEN Undef ELSE Str(ToUpperCase(x.v))

\* The test of handleSubmit's loop for the question at 0-based `index`.
CountsAsCorrect(question, selected, index) ==
    OptionalUpper(question.correct_option) = OptionalUpper(AnswerAt(selected, index))

\* The score handleSubmit's loop computes.
ComputeScore(questions, selected) ==
    Cardinality({i \in 1..Len(questions) : CountsAsCorrect(questions[i], selected, i - 1)})

\* The selectedAnswers handleAnswerSelect stores.
WithAnswer(selected, questionIndex, option) ==
    [i \in (DOMAIN selected) \cup {questionIndex} |->
        IF i = questionIndex THEN option ELSE selected[i]]

\* handleAnswerSelect as it would be without its test of submitted.
handleAnswerSelectAfterSubmit(questionIndex, option) ==
    /\ route = "quiz"
    /\ questionIndex \in 0..(Len(quizState.questions) - 1)
    /\ quizState' =
           [quizState EXCEPT !.selectedAnswers = WithAnswer(@, questionIndex, option)]
    /\ UNCHANGED <<route, pyqsVars, quizPc, uploads, pending, applied, quizData, isLoading,
                   error>>

handleAnswerSelect(questionIndex, option) ==
    /\ route = "quiz"
    /\ questionIndex \in 0..(Len(quizState.questions) - 1)
    /\ IF quizState.submitted
       THEN UNCHANGED quizState
       ELSE quizState' =
                [quizState EXCEPT
                    !.selectedAnswers = WithAnswer(@, questionIndex, option)]
    /\ UNCHANGED <<route, pyqsVars, quizPc, uploads, pending, applied, quizData, isLoading,
                   error>>

\* The Submit Quiz button is rendered while the quiz is not submitted.
handleQuizSubmit ==
    /\ route = "quiz"
    /\ Len(quizState.questions) > 0
    /\ ~quizState.submitted
    /\ quizState' =
           [quizState EXCEPT
               !.submitted = TRUE,
               !.score = ComputeScore(quizState.questions, quizState.selectedAnswers)]
    /\ UNCHANGED <<route, pyqsVars, quizPc, uploads, pending, applied, quizData, isLoading,
                   error>>

\* ------------------------------------------------------- specification

\* The state once the routed component is mounted and its mount effects
\* have run: the practice page has started its fetch and holds the first
\* debounce timeout.
Init ==
    /\ route \in {"pyqs", "quiz"}
    /\ loadPc = "fetching"
    /\ csvData = <<>>
    /\ allQuestions = <<>>
    /\ isLoadingCsv = TRUE
    /\ csvError = NoError
    /\ filters = EmptyFilters
    /\ availablePapers = <<>>
    /\ availableSubjects = <<>>
    /\ availableTopics = <<>>
    /\ availableYears = <<>>
    /\ searchTerm = <<>>
    /\ debouncedSearchTerm = <<>>
    /\ timer = << <<>> >>
    /\ isRandom = FALSE
    /\ displayedQuestions = <<>>
    /\ currentIndex = 0
    /\ selectedOption = NoOption
    /\ submittedIndices = {}
    /\ jumpToInput = <<>>
    /\ lastStep = [kind |-> "mount", carried |-> FALSE, cascaded |-> FALSE]
    /\ quizPc = "idle"
    /\ uploads = 0
    /\ pending = {}
    /\ applied = 0
    /\ quizData = <<>>
    /\ quizState = FreshQuizState(<<>>)
    /\ isLoading = FALSE
    /\ error = NoQuizError

Next ==
    \/ FetchFails
    \/ \E data \in DecodedData, hasErrors \in BOOLEAN : ParseComplete(data, hasErrors)
    \/ \E name \in FilterNames : \E value \in AllValues : handleFilterChange(name, value)
    \/ \E value \in SearchInputs : handleSearchChange(value)
    \/ DebounceFires
    \/ handleRandomToggle
    \/ \E option \in OptionLetters : handleOptionSelect(option)
    \/ handleSubmit
    \/ handlePrevious
    \/ handleNext
    \/ \E value \in JumpInputs : handleJumpInputChange(value)
    \/ handleJumpTo
    \/ handleFileUpload
    \/ \E data \in QuizDecodedData : QuizParseComplete(data)
    \/ QuizParseError
    \/ \E questionIndex \in 0..(MaxRows - 1), option \in OptionLetters :
           handleAnswerSelect(questionIndex, option)
    \/ handleQuizSubmit

Spec == Init /\ [][Next]_vars

\* A timeout that is set and not cleared fires.
FairSpec == Spec /\ WF_vars(DebounceFires)

\* ------------------------------------- specification of the load alone

\* The most rows a decoded file has under LoadSpec.
MaxFileRows == 3

\* results.data for the files LoadSpec loads.
WideDecodedData ==
    {FileRows(RowCycle, start, n) : start \in 1..Len(RowCycle), n \in 0..MaxFileRows}

LoadInit == Init /\ route = "pyqs"

\* The load and the events of the page that do not depend on the search
\* box, over files of up to MaxFileRows rows.
LoadNext ==
    \/ FetchFails
    \/ \E data \in WideDecodedData, hasErrors \in BOOLEAN : ParseComplete(data, hasErrors)
    \/ \E name \in FilterNames : \E value \in AllValues : handleFilterChange(name, value)
    \/ \E option \in OptionLetters : handleOptionSelect(option)
    \/ handleSubmit
    \/ handlePrevious
    \/ handleNext

LoadSpec == LoadInit /\ [][LoadNext]_vars

\* The one run of fetchAndParseCsv comes to its end: the awaited fetch
\* settles, and Papa.parse of the text calls complete before it returns.
LoadCompletes ==
    \/ FetchFails
    \/ \E data \in WideDecodedData, hasErrors \in BOOLEAN : ParseComplete(data, hasErrors)

\* LoadSpec with a load that comes to its end.
LoadFairSpec == LoadSpec /\ WF_vars(LoadCompletes)

\* ------------------------------- specification of files with numerals

\* Lines whose Paper cell, and for the second its Subject cell too, is a
\* numeral: dynamicTyping decodes these cells to numbers.
RowN1 == [RowA EXCEPT !.paper = DynamicTyping(Str(<<"1">>))]

RowN2 ==
    [RowB EXCEPT
        !.paper = DynamicTyping(Str(<<"2">>)),
        !.subject = DynamicTyping(Str(<<"7">>))]

TypedRowCycle == <<RowN1, RowN2, RowC>>

\* results.data for the files TypedSpec loads.
TypedDecodedData ==
    {FileRows(TypedRowCycle, start, n) : start \in 1..Len(TypedRowCycle), n \in 0..MaxFileRows}

\* The load and the filter controls, over files with numerals in the Paper
\* and Subject columns.
TypedNext ==
    \/ FetchFails
    \/ \E data \in TypedDecodedData, hasErrors \in BOOLEAN : ParseComplete(data, hasErrors)
    \/ \E name \in FilterNames : \E value \in AllValues : handleFilterChange(name, value)

TypedSpec == LoadInit /\ [][TypedNext]_vars

\* --------------------------------- specification of the row normalizers

\* The cells a file holds in one column of one line: no cell (the column is
\* not in the file), an empty cell, a numeral, a text.
SourceCells == {Undef, Str(<<>>), Str(<<"0">>), Str(<<"a">>)}

\* The complete line RowA with the cell `cell` under `key`, as decoded.
RowWithCell(key, cell) == [RowA EXCEPT ![key] = DynamicTyping(cell)]

\* results.data of the practice page for files of one such line, alone or
\* after a complete first line.
CellDecodedData ==
    {<<RowWithCell(key, cell)>> : key \in RowKeys, cell \in SourceCells}
        \cup {<<RowA, RowWithCell(key, cell)>> : key \in RowKeys, cell \in SourceCells}

\* A line of a quiz file with the cell `cell` under `key`; without
\* dynamicTyping the cell is decoded as it is.
QuizRowWithCell(key, cell) == [QuizRowA EXCEPT ![key] = cell]

QuizCellData == {<<QuizRowWithCell(key, cell)>> : key \in QuizKeys, cell \in SourceCells}

\* The two loads alone, over files that vary one cell.
CellNext ==
    \/ FetchFails
    \/ \E data \in CellDecodedData, hasErrors \in BOOLEAN : ParseComplete(data, hasErrors)
    \/ handleFileUpload
    \/ \E data \in QuizCellData : QuizParseComplete(data)
    \/ QuizParseError

CellSpec == Init /\ [][CellNext]_vars

\* ---------------------------------------------------------------- claims

\* What updateDisplayedQuestions reads: a change of any of these runs it.
displayedDeps ==
    <<allQuestions, isLoadingCsv, csvError, filters, debouncedSearchTerm, isRandom>>

\* C1: every event that changes an input of the displayed set (the
\* collection, the load state, a filter, the id filter, the effective search
\* term or the randomize flag) leaves currentIndex at 0, no staged
\* selection and an empty submitted set.
C1_RecomputeResets ==
    [][displayedDeps' # displayedDeps
           => /\ currentIndex' = 0
              /\ selectedOption' = NoOption
              /\ submittedIndices' = {}]_vars

\* C1 witness: a subject change has just recomputed a non-empty displayed
\* set that holds a question submitted in the view it replaced.
C1_Witness ==
    /\ lastStep.kind = "subject"
    /\ lastStep.carried
    /\ Len(displayedQuestions) > 0
    /\ currentIndex = 0
    /\ selectedOption = NoOption
    /\ submittedIndices = {}

\* C2: whenever the displayed set is non-empty, currentIndex is one of its
\* positions.
C2_IndexInRange ==
    Len(displayedQuestions) > 0 => currentIndex \in 0..(Len(displayedQuestions) - 1)

\* C2 witness: the page stands on the last of several positions with an
\* earlier position submitted.
C2_Witness ==
    /\ currentIndex > 0
    /\ currentIndex = Len(displayedQuestions) - 1
    /\ 0 \in submittedIndices

\* C3: at a submitted position of the practice page no event puts another
\* letter into the staged selection, and once the quiz is submitted no event
\* changes its selected answers.
C3_SubmittedAnswerLocked ==
    [][/\ currentIndex \in submittedIndices
            => ~(selectedOption' \in OptionLetters /\ selectedOption' # selectedOption)
       /\ quizState.submitted
            => quizState'.selectedAnswers = quizState.selectedAnswers]_vars

\* C3 witness: a letter was selected and submitted at the current position,
\* where handleOptionSelect can be called again.
C3_Witness ==
    /\ QuestionMounted
    /\ currentIndex \in submittedIndices
    /\ selectedOption \in OptionLetters
    /\ lastStep = Quiet

\* C4: whenever the page stands on a submitted position it holds the letter
\* that was submitted there, so it holds a letter.
C4_SubmittedAnswerKept ==
    (QuestionMounted /\ currentIndex \in submittedIndices)
        => selectedOption \in OptionLetters

\* C5: once the quiz is submitted its score is the number of answered
\* positions whose answer matches the question's answer key.
C5_ScoreCountsMatches ==
    quizState.submitted
        => quizState.score =
               Cardinality(
                   {i \in 1..Len(quizState.questions) :
                       /\ (i - 1) \in DOMAIN quizState.selectedAnswers
                       /\ quizState.questions[i].correct_option.t = "str"
                       /\ ToUpperCase(<<quizState.selectedAnswers[i - 1]>>)
                              = ToUpperCase(quizState.questions[i].correct_option.v)})

\* C6: once the quiz is submitted its score does not exceed the number of
\* questions that have an answer key: a question without one is not counted.
C6_NoKeyNeverCorrect ==
    quizState.submitted
        => quizState.score <=
               Cardinality({i \in 1..Len(quizState.questions) :
                               quizState.questions[i].correct_option # Null})

\* C7: a call of handleJumpTo with input n moves to position n-1 when
\* 1 <= n <= len(displayed), and otherwise only empties the input.
C7_JumpTo ==
    [][handleJumpTo
           => LET n == ParseInt(jumpToInput)
              IN  IF ~n.nan /\ 1 <= n.n /\ n.n <= Len(displayedQuestions)
                  THEN currentIndex' = n.n - 1
                  ELSE /\ jumpToInput' = <<>>
                       /\ UNCHANGED <<currentIndex, selectedOption, submittedIndices,
                                      displayedQuestions>>]_vars

\* C7 witness: the page stands on the last of several positions, whose
\* number is in the Go to box, with a position submitted.
C7_Witness ==
    /\ JumpEnabled
    /\ currentIndex = Len(displayedQuestions) - 1
    /\ jumpToInput = Numeral(currentIndex + 1)
    /\ submittedIndices # {}

\* C8: an event that changes filters.paper leaves subject and topic empty
\* and year and id as they were.
C8_PaperCascade ==
    [][filters'.paper # filters.paper
           => /\ filters'.subject = <<>>
              /\ filters'.topic = <<>>
              /\ filters'.year = filters.year
              /\ filters'.id = filters.id]_vars

\* C8 witness: the paper selection has just been cleared, which emptied a
\* subject or topic selection, and a year is still selected.
C8_Witness ==
    /\ lastStep.kind = "paper"
    /\ lastStep.cascaded
    /\ filters.paper = <<>>
    /\ filters.year # <<>>

\* C9: a handleFilterChange for the subject select changes the subject,
\* leaves topic empty and paper, year and id as they were.
C9_SubjectCascade ==
    [][lastStep'.kind = "subject"
           => /\ filters'.subject # filters.subject
              /\ filters'.topic = <<>>
              /\ filters'.paper = filters.paper
              /\ filters'.year = filters.year
              /\ filters'.id = filters.id]_vars

\* C9 witness: the subject selection has just been cleared under a selected
\* paper, which emptied the topic selection.
C9_Witness ==
    /\ lastStep.kind = "subject"
    /\ lastStep.cascaded
    /\ filters.subject = <<>>
    /\ filters.paper # <<>>

\* C10: after a successful load the collection has one question per decoded
\* row, in row order, with the ids 1..N, and every displayed question is the
\* question of the collection that has its id; the same holds of the quiz.
C10_DenseIds ==
    /\ (loadPc = "done" /\ csvError = NoError)
          => /\ Len(allQuestions) = Len(csvData)
             /\ \A i \in 1..Len(allQuestions) : allQuestions[i].id = i
             /\ \A i \in 1..Len(allQuestions) :
                    /\ allQuestions[i].question = Coalesce(csvData[i].question)
                    /\ allQuestions[i].paper = Coalesce(csvData[i].paper)
             /\ \A j \in 1..Len(displayedQuestions) :
                    /\ displayedQuestions[j].id \in 1..Len(allQuestions)
                    /\ displayedQuestions[j] = allQuestions[displayedQuestions[j].id]
    /\ Len(quizState.questions) = Len(quizData)
    /\ \A i \in 1..Len(quizState.questions) : quizState.questions[i].id = i

\* C10 witness: a loaded collection of several questions is displayed
\* shuffled, with the id filter empty.
C10_Witness ==
    /\ loadPc = "done"
    /\ isRandom
    /\ filters.id = <<>>
    /\ Len(displayedQuestions) >= 2
    /\ displayedQuestions[1].id > displayedQuestions[2].id

\* C11: a load that failed to fetch, decoded no row or decoded a first row
\* without its essential fields ends with an error set, and whenever an
\* error is set the collection is empty.
C11_FailedLoadIsEmpty ==
    /\ csvError # NoError => Len(allQuestions) = 0
    /\ (loadPc = "done" /\ (Len(csvData) = 0 \/ Len(MissingKeys(csvData[1])) > 0))
          => csvError # NoError

\* C11 witness: rows were decoded, the first-row check rejected the load,
\* and the collection is empty.
C11_Witness ==
    /\ loadPc = "done"
    /\ Len(csvData) > 0
    /\ csvError.kind = "missing"
    /\ Len(allQuestions) = 0

\* C12: a load that decoded rows whose first row has its essential fields
\* succeeds, with these rows as the collection, also when the decoder
\* reported diagnostics.
C12_DiagnosticsDoNotFail ==
    (loadPc = "done" /\ Len(csvData) > 0 /\ Len(MissingKeys(csvData[1])) = 0)
        => (csvError = NoError /\ Len(allQuestions) = Len(csvData))

\* C13: a load of three rows whose first row is complete and whose second
\* or third row has no question value succeeds, the collection has three
\* questions, and the question field of that row's question is null.
C13_LaterRowWithoutQuestion ==
    (/\ loadPc = "done"
     /\ Len(csvData) = 3
     /\ \A k \in {"question", "option_a", "option_b", "option_c", "option_d",
                  "correct_option"} :
            ~IsNullish(csvData[1][k]) /\ csvData[1][k] # Str(<<>>)
     /\ \E i \in 2..3 : IsNullish(csvData[i].question))
        => /\ csvError = NoError
           /\ Len(allQuestions) = 3
           /\ \A i \in 2..3 :
                  IsNullish(csvData[i].question) => allQuestions[i].question = Null

\* C14: when rows were decoded, the load is rejected with the error that
\* names the essential keys the first row lacks, and with an empty
\* collection, exactly when the first row lacks one; what later rows lack
\* does not raise that error.
C14_FirstRowGate ==
    (loadPc = "done" /\ Len(csvData) > 0)
        => LET lacking ==
                   {k \in {"question", "option_a", "option_b", "option_c", "option_d",
                           "correct_option"} :
                       IsNullish(csvData[1][k]) \/ csvData[1][k] = Str(<<>>)}
           IN  IF lacking # {}
               THEN /\ csvError.kind = "missing"
                    /\ {csvError.keys[i] : i \in 1..Len(csvError.keys)} = lacking
                    /\ Len(allQuestions) = 0
               ELSE csvError.kind # "missing"

\* C15: for the collection of every reachable state and every paper value,
\* the subject list derived with that paper selected holds only values of
\* the subject list derived with no paper selected, and so does the list
\* the subject select shows.
C15_SubjectsNarrow ==
    LET unfiltered ==
            SubjectsOf(allQuestions, isLoadingCsv, csvError,
                       [filters EXCEPT !.paper = <<>>])
        Values(list) == {list[i] : i \in 1..Len(list)}
        papers ==
            OptionValues(PapersOf(allQuestions, isLoadingCsv, csvError))
                \cup {<<"P", "9">>}
    IN  /\ \A paper \in papers :
               Values(SubjectsOf(allQuestions, isLoadingCsv, csvError,
                                 [filters EXCEPT !.paper = paper]))
                   \subseteq Values(unfiltered)
        /\ Values(availableSubjects) \subseteq Values(unfiltered)

\* C15 witness: a paper is selected and the subject select shows some but
\* not all of the subjects of the collection.
C15_Witness ==
    /\ filters.paper # <<>>
    /\ Len(availableSubjects) > 0
    /\ Len(availableSubjects)
           < Len(SubjectsOf(allQuestions, isLoadingCsv, csvError,
                            [filters EXCEPT !.paper = <<>>]))

\* C16: for the collection, facet selection and id filter of every
\* reachable state, the list filtered with a search term is a sub-list, in
\* the same order, of the list filtered with the empty term, and with
\* randomize off so is the displayed list.
C16_SearchNarrows ==
    LET unsearched == Filtered(allQuestions, filters, <<>>)
        SubList(a, b) ==
            /\ Len(a) <= Len(b)
            /\ \E at \in [1..Len(a) -> 1..Len(b)] :
                   /\ \A i, j \in 1..Len(a) : i < j => at[i] < at[j]
                   /\ \A i \in 1..Len(a) : a[i] = b[at[i]]
    IN  /\ \A term \in SearchInputs \cup {<<"c">>, <<"A", "B">>, <<"x", "x">>} :
               SubList(Filtered(allQuestions, filters, term), unsearched)
        /\ (~isRandom /\ ~NothingLoaded(allQuestions, isLoadingCsv, csvError))
               => SubList(displayedQuestions, unsearched)

\* C16 witness: with randomize off, a search term in effect has removed
\* some but not all of the questions the other filters let through.
C16_Witness ==
    /\ ~isRandom
    /\ debouncedSearchTerm # <<>>
    /\ Len(displayedQuestions) > 0
    /\ Len(displayedQuestions) < Len(Filtered(allQuestions, filters, <<>>))

\* C17: after every step the displayed list of a loaded page holds exactly
\* the questions of the list filtered by the same collection, filters and
\* search term, each as often, whether randomize is on or off; so does every
\* array shuffleArray can return for that list; and a change of the
\* randomize flag leaves the collection as it was.
C17_RandomizePermutes ==
    [][LET filtered == Filtered(allQuestions', filters', debouncedSearchTerm')
           Count(a, q) == Cardinality({i \in 1..Len(a) : a[i] = q})
           Permutes(a, b) ==
               /\ Len(a) = Len(b)
               /\ \A i \in 1..Len(b) : Count(a, b[i]) = Count(b, b[i])
       IN  /\ ~NothingLoaded(allQuestions', isLoadingCsv', csvError')
                => /\ Permutes(displayedQuestions', filtered)
                   /\ \A shuffled \in shuffleArray(filtered) :
                          Permutes(shuffled, filtered)
           /\ isRandom' # isRandom => allQuestions' = allQuestions]_vars

\* C17 witness: randomize has just been switched and the displayed list
\* holds several questions in another order than the filtered list.
C17_Witness ==
    /\ lastStep.kind = "random"
    /\ isRandom
    /\ Len(displayedQuestions) >= 2
    /\ displayedQuestions # Filtered(allQuestions, filters, debouncedSearchTerm)

\* C18: in every state with a loaded collection, each of paper, subject,
\* topic, year and id that holds a selection has its control on the page,
\* enabled and able to report the empty value.
C18_EachFilterClearable ==
    (~isLoadingCsv /\ csvError = NoError /\ Len(allQuestions) > 0)
        => \A name \in FilterNames :
               filters[name] # <<>> => ControlOffers(name, <<>>)

C20_DebounceSettles ==
    \A term \in SearchInputs :
        <>[](searchTerm = term)
            => <>[](/\ debouncedSearchTerm = term
                    /\ ~isRandom
                         => displayedQuestions =
                                IF NothingLoaded(allQuestions, isLoadingCsv, csvError)
                                THEN <<>>
                                ELSE Filtered(allQuestions, filters, term))

\* C20 witness: the timeout of a typed term has fired, and with randomize
\* off the displayed list is not empty.
C20_Witness ==
    /\ searchTerm # <<>>
    /\ timer = <<>>
    /\ debouncedSearchTerm = searchTerm
    /\ ~isRandom
    /\ Len(displayedQuestions) > 0


\* C21: once the load has ended, no step changes the collection.
C21_CollectionFrozen ==
    [][loadPc = "done" => allQuestions' = allQuestions]_vars

\* C21 witness: on a loaded collection a filter is selected, randomize is
\* on, a search term is in effect and a position is submitted.
C21_Witness ==
    /\ loadPc = "done"
    /\ Len(allQuestions) = MaxRows
    /\ filters.paper # <<>>
    /\ isRandom
    /\ debouncedSearchTerm # <<>>
    /\ submittedIndices # {}

\* C22: a call of handleSubmit with no staged selection or at a submitted
\* position changes nothing of the page; any other call adds the current
\* position to the submitted set and changes nothing else.
C22_Submit ==
    [][handleSubmit
           => /\ submittedIndices' =
                     IF selectedOption = NoOption \/ currentIndex \in submittedIndices
                     THEN submittedIndices
                     ELSE submittedIndices \cup {currentIndex}
              /\ UNCHANGED <<currentIndex, selectedOption, displayedQuestions, jumpToInput,
                             filters, allQuestions>>]_vars

\* C22 witness: the second position has just been submitted with a letter
\* while the first one was submitted before.
C22_Witness ==
    /\ currentIndex = 1
    /\ submittedIndices = {0, 1}
    /\ selectedOption \in OptionLetters

\* C23: handleNext at the last position and handlePrevious at position 0
\* change neither currentIndex, the staged selection nor the submitted set;
\* elsewhere handleNext adds 1 to currentIndex and handlePrevious takes 1
\* from it.
C23_NextPreviousClamped ==
    [][/\ handleNext
            => IF currentIndex = Len(displayedQuestions) - 1
               THEN UNCHANGED <<currentIndex, selectedOption, submittedIndices>>
               ELSE currentIndex' = currentIndex + 1
       /\ handlePrevious
            => IF currentIndex = 0
               THEN UNCHANGED <<currentIndex, selectedOption, submittedIndices>>
               ELSE currentIndex' = currentIndex - 1]_vars

\* C23 witness: a letter is staged, not submitted, at the last of several
\* positions, where handleNext can be called.
C23_Witness ==
    /\ QuestionMounted
    /\ currentIndex > 0
    /\ currentIndex = Len(displayedQuestions) - 1
    /\ selectedOption \in OptionLetters
    /\ currentIndex \notin submittedIndices


\* C24: handleNext, handlePrevious and handleJumpTo leave the submitted set
\* as it is, and a step that changes no input of the displayed list takes
\* no position out of the submitted set.
C24_SubmittedSetKept ==
    [][/\ (handleNext \/ handlePrevious \/ handleJumpTo) => UNCHANGED submittedIndices
       /\ displayedDeps' = displayedDeps => submittedIndices \subseteq submittedIndices']_vars

\* C24 witness: a jump has moved the page from the submitted first position
\* to the second one.
C24_Witness ==
    /\ jumpToInput = Numeral(2)
    /\ currentIndex = 1
    /\ submittedIndices = {0}
    /\ selectedOption = NoOption

\* C25: when handleNext or handlePrevious moves the page, or handleJumpTo
\* accepts its target, and the position arrived at is not submitted, no
\* letter is selected after the step.
C25_ArrivesUnselected ==
    [][(\/ (handleNext \/ handlePrevious) /\ currentIndex' # currentIndex
        \/ /\ handleJumpTo
           /\ LET n == ParseInt(jumpToInput)
              IN  ~n.nan /\ 1 <= n.n /\ n.n <= Len(displayedQuestions))
           => (currentIndex' \notin submittedIndices' => selectedOption' = NoOption)]_vars

\* C25 witness: the page is back on the first position, never submitted,
\* with no letter selected, after the second one was submitted.
C25_Witness ==
    /\ QuestionMounted
    /\ currentIndex = 0
    /\ submittedIndices = {1}
    /\ selectedOption = NoOption
    /\ jumpToInput = <<>>

\* C26: once the quiz is submitted it stays submitted, and no step changes
\* its selected answers or its score.
C26_QuizLocked ==
    [][quizState.submitted
           => /\ quizState'.submitted
              /\ quizState'.selectedAnswers = quizState.selectedAnswers
              /\ quizState'.score = quizState.score
              /\ quizState'.questions = quizState.questions]_vars

\* C26 witness: a quiz of several questions is submitted with some of them
\* answered and some not.
C26_Witness ==
    /\ quizState.submitted
    /\ Len(quizState.questions) >= 2
    /\ DOMAIN quizState.selectedAnswers = {1}


\* C27: on a loaded page with randomize off, no id filter and no search term
\* in effect, the displayed list is the list of the questions of the
\* collection, in its order, whose paper, subject, topic and year each are
\* the string selected for it where one is selected; its ids increase; and
\* the view has one value only.
C27_FacetFilter ==
    (/\ ~NothingLoaded(allQuestions, isLoadingCsv, csvError)
     /\ ~isRandom
     /\ filters.id = <<>>
     /\ debouncedSearchTerm = <<>>)
        => LET Selected(q) ==
                   \A key \in {"paper", "subject", "topic", "year"} :
                       filters[key] # <<>> => q[key] = Str(filters[key])
           IN  /\ displayedQuestions = SelectSeq(allQuestions, Selected)
               /\ \A i, j \in 1..Len(displayedQuestions) :
                      i < j => displayedQuestions[i].id < displayedQuestions[j].id
               /\ DisplayedChoices(allQuestions, isLoadingCsv, csvError, filters,
                                   debouncedSearchTerm, isRandom)
                      = {displayedQuestions}

\* C27 witness: a year is selected that some but not all questions of the
\* collection have, and nothing else narrows or reorders the view.
C27_Witness ==
    /\ ~isRandom
    /\ filters.id = <<>>
    /\ debouncedSearchTerm = <<>>
    /\ filters.year # <<>>
    /\ Len(displayedQuestions) > 0
    /\ Len(displayedQuestions) < Len(allQuestions)


\* C28: for every question of a loaded collection and every non-empty term,
\* the search step keeps the question exactly when the term, lower-cased,
\* occurs in the lower-cased text of one of its question, passage, four
\* options and explanation that is present; the paper, subject, topic and
\* year are not searched.
C28_SearchMatchesText ==
    ~NothingLoaded(allQuestions, isLoadingCsv, csvError)
        => \A term \in {<<"B", "a">>, <<"c">>, <<"0">>, <<"P", "1">>, <<"2", "0">>} :
               LET Occurs(q) ==
                       \E key \in {"question", "passage", "option_a", "option_b",
                                   "option_c", "option_d", "explanation"} :
                           /\ ~IsNullish(q[key])
                           /\ Includes(ToLowerCase(JsString(q[key])), ToLowerCase(term))
               IN  SearchStep(allQuestions, term) = SelectSeq(allQuestions, Occurs)


\* C29: for the facet-filtered list of every reachable state and every id
\* input, the id step returns at most one question, the one of the list
\* whose id is the integer the input parses to, and returns the list itself
\* when the input is empty or parses to no integer; and an id filter in
\* effect leaves at most one question displayed, with that id.
C29_IdFilter ==
    LET facets == FacetStep(allQuestions, filters)
    IN  /\ \A input \in IdInputs \cup {<<"1">>, <<"x">>, <<"-">>} :
               LET k == ParseInt(input)
                   byId == IdStep(facets, [filters EXCEPT !.id = input])
               IN  IF input # <<>> /\ ~k.nan
                   THEN /\ Len(byId) <= 1
                        /\ \A i \in 1..Len(byId) : byId[i].id = k.n
                        /\ Len(byId) = 1 <=> \E i \in 1..Len(facets) : facets[i].id = k.n
                   ELSE byId = facets
        /\ (filters.id # <<>> /\ ~ParseInt(filters.id).nan)
              => /\ Len(displayedQuestions) <= 1
                 /\ \A i \in 1..Len(displayedQuestions) :
                        displayedQuestions[i].id = ParseInt(filters.id).n

\* C29 witness: the id filter holds the id of the second question of the
\* collection and that question alone is displayed.
C29_Witness ==
    /\ filters.id = <<"2">>
    /\ Len(allQuestions) >= 2
    /\ Len(displayedQuestions) = 1
    /\ displayedQuestions[1].id = 2


\* C30: after every step on a loaded collection the subject list holds,
\* each once, exactly the subject values that are present and not empty of
\* the questions whose paper is the selected one, or of all questions when
\* no paper is selected; and a step that changes neither the selected paper
\* nor the load leaves the list as it was.
C30_SubjectList ==
    [][/\ ~NothingLoaded(allQuestions', isLoadingCsv', csvError')
            => LET values ==
                       {allQuestions'[i].subject : i \in
                           {i \in 1..Len(allQuestions') :
                               /\ filters'.paper # <<>>
                                     => allQuestions'[i].paper = Str(filters'.paper)
                               /\ ~IsNullish(allQuestions'[i].subject)
                               /\ allQuestions'[i].subject # Str(<<>>)}}
               IN  /\ {availableSubjects'[i] : i \in 1..Len(availableSubjects')} = values
                   /\ Len(availableSubjects') = Cardinality(values)
       /\ (/\ filters'.paper = filters.paper
           /\ <<allQuestions, isLoadingCsv, csvError>>'
                  = <<allQuestions, isLoadingCsv, csvError>>)
            => availableSubjects' = availableSubjects]_vars

\* C30 witness: a year has just been selected under a selected paper and
\* subject, and the subject list still holds the subjects of that paper.
C30_Witness ==
    /\ lastStep.kind = "year"
    /\ filters.paper # <<>>
    /\ filters.subject # <<>>
    /\ filters.year # <<>>
    /\ Len(availableSubjects) > 0


\* C31: after every step on a loaded collection the topic list holds, each
\* once, exactly the topic values that are present and not empty of the
\* questions whose paper is the selected one (if one is selected) and whose
\* subject is the selected one (if one is selected); a step that clears the
\* subject under an unchanged paper, or clears the paper, loses no topic of
\* the list.
C31_TopicList ==
    [][~NothingLoaded(allQuestions', isLoadingCsv', csvError')
          => LET values ==
                     {allQuestions'[i].topic : i \in
                         {i \in 1..Len(allQuestions') :
                             /\ filters'.paper # <<>>
                                   => allQuestions'[i].paper = Str(filters'.paper)
                             /\ filters'.subject # <<>>
                                   => allQuestions'[i].subject = Str(filters'.subject)
                             /\ ~IsNullish(allQuestions'[i].topic)
                             /\ allQuestions'[i].topic # Str(<<>>)}}
                 before == {availableTopics[i] : i \in 1..Len(availableTopics)}
                 after == {availableTopics'[i] : i \in 1..Len(availableTopics')}
             IN  /\ after = values
                 /\ Len(availableTopics') = Cardinality(values)
                 /\ (/\ filters.subject # <<>>
                     /\ filters'.subject = <<>>
                     /\ filters'.paper = filters.paper)
                        => before \subseteq after
                 /\ (filters.paper # <<>> /\ filters'.paper = <<>>)
                        => /\ before \subseteq after
                           /\ after = {allQuestions'[i].topic : i \in
                                          {i \in 1..Len(allQuestions') :
                                              /\ ~IsNullish(allQuestions'[i].topic)
                                              /\ allQuestions'[i].topic # Str(<<>>)}}]_vars

\* C31 witness: the subject has just been cleared under a selected paper,
\* and the topic list holds the two topics of that paper.
C31_Witness ==
    /\ lastStep.kind = "subject"
    /\ filters.paper # <<>>
    /\ filters.subject = <<>>
    /\ Len(availableTopics) = 2


\* C32: the paper list and the year list are determined by the collection
\* alone: after every step they hold the paper values and the year values
\* of the whole collection, and no step that leaves the collection as it
\* was, whatever it does to paper, subject, topic, year, the id filter, the
\* search term or the randomize flag, changes either list.
C32_PaperYearListsFrame ==
    [][/\ {availablePapers'[i] : i \in 1..Len(availablePapers')}
              = {allQuestions'[i].paper : i \in
                    {i \in 1..Len(allQuestions') : Truthy(allQuestions'[i].paper)}}
       /\ {availableYears'[i] : i \in 1..Len(availableYears')}
              = {allQuestions'[i].year : i \in
                    {i \in 1..Len(allQuestions') : Truthy(allQuestions'[i].year)}}
       /\ allQuestions' = allQuestions
              => /\ availablePapers' = availablePapers
                 /\ availableYears' = availableYears]_vars

\* C32 witness: a subject has just been selected that keeps one question of
\* a collection with two years, and the year list still holds both.
C32_Witness ==
    /\ lastStep.kind = "subject"
    /\ filters.subject # <<>>
    /\ Len(displayedQuestions) = 1
    /\ Len(availableYears) = 2
    /\ Len(availablePapers) = 1


\* C33: in the paper, subject and topic lists every entry stands before
\* every later entry in the order of the strings, so each list is sorted
\* ascending without duplicates; in the year list no entry occurs twice and
\* no entry has a smaller number than a later one.
C33_ListsSorted ==
    /\ \A list \in {availablePapers, availableSubjects, availableTopics} :
           \A i, j \in 1..Len(list) :
               i < j => StringLess(JsString(list[i]), JsString(list[j]))
    /\ \A i, j \in 1..Len(availableYears) :
           i < j => /\ availableYears[i] # availableYears[j]
                    /\ ParseInt(JsString(availableYears[i])).n
                           >= ParseInt(JsString(availableYears[j])).n

\* C33 witness: a collection of three questions whose subjects, topics and
\* years do not come in the order of the lists.
C33_Witness ==
    /\ Len(allQuestions) = 3
    /\ allQuestions[1].subject = Str(sS2)
    /\ allQuestions[1].topic = Str(sT2)
    /\ allQuestions[1].year = Str(s2021)
    /\ allQuestions[3].year = Str(s2020)
    /\ availableSubjects = <<Str(sS1), Str(sS2)>>
    /\ availableTopics = <<Str(sT1), Str(sT2)>>
    /\ availablePapers = <<Str(sP1), Str(sP2)>>
    /\ availableYears = <<Str(s2021), Str(s2020)>>


\* C34: the practice page starts with the loading flag set; the flag is
\* eventually cleared; whenever it is clear the page is in exactly one of
\* Ready (no error, a collection that is not empty) and Failed (an error,
\* an empty collection); and no step sets the flag again once it is clear.
C34_LoadSettlesOnce ==
    /\ isLoadingCsv = TRUE
    /\ <>(~isLoadingCsv)
    /\ [](~isLoadingCsv
            => \/ csvError = NoError /\ Len(allQuestions) > 0
               \/ csvError # NoError /\ Len(allQuestions) = 0)
    /\ [][~isLoadingCsv => ~isLoadingCsv']_vars

\* C34 witness: the load has ended in Failed for a decoded file that has
\* rows, and the user has since changed nothing.
C34_Witness ==
    /\ loadPc = "done"
    /\ ~isLoadingCsv
    /\ Len(csvData) > 0
    /\ csvError # NoError
    /\ Len(allQuestions) = 0
    /\ lastStep.kind = "load"


\* C35: after every step at most one debounce timeout is pending; a step
\* that changes the raw search input leaves exactly one, which holds the
\* new input; and a step that changes the effective search term gives it
\* the value the raw input has, in a step that leaves the raw input alone,
\* so an input that was replaced while its timeout was pending is never
\* made effective.
C35_SingleTimer ==
    [][/\ Len(timer') <= 1
       /\ searchTerm' # searchTerm => timer' = <<searchTerm'>>
       /\ debouncedSearchTerm' # debouncedSearchTerm
              => /\ timer = <<searchTerm>>
                 /\ debouncedSearchTerm' = searchTerm
                 /\ searchTerm' = searchTerm]_vars

\* C35 witness: the effective term is a typed one and a timeout with the
\* same term is pending: the input was emptied and typed again while the
\* timeout of the empty input was pending, and the empty input never became
\* effective.
C35_Witness ==
    /\ searchTerm # <<>>
    /\ debouncedSearchTerm = searchTerm
    /\ timer = <<searchTerm>>


\* C36: no cell of a file is decoded to the empty string on the practice
\* page, where a missing or empty cell is decoded to undefined or null; in
\* every question of the practice page and of the quiz no field is the
\* empty string, and every field whose decoded cell is undefined, null or
\* the empty string is null.
C36_NoValueIsNull ==
    LET Empty(x) == IsNullish(x) \/ x = Str(<<>>)
        QuizKeyOf ==
            [paper |-> "Paper", passage |-> "Passage", question |-> "Question",
             option_a |-> "Option A", option_b |-> "Option B",
             option_c |-> "Option C", option_d |-> "Option D",
             correct_option |-> "Correct Answer", explanation |-> "Explanation",
             subject |-> "Subject", topic |-> "Topic", year |-> "Year"]
    IN  /\ \A cell \in SourceCells :
               /\ DynamicTyping(cell) # Str(<<>>)
               /\ Empty(cell) => IsNullish(DynamicTyping(cell))
        /\ \A i \in 1..Len(allQuestions) : \A key \in RowKeys :
               /\ allQuestions[i][key] # Str(<<>>)
               /\ allQuestions[i][key] # Undef
               /\ Empty(csvData[i][key]) => allQuestions[i][key] = Null
        /\ \A i \in 1..Len(quizState.questions) : \A field \in DOMAIN QuizKeyOf :
               /\ quizState.questions[i][field] # Str(<<>>)
               /\ quizState.questions[i][field] # Undef
               /\ Empty(quizData[i][QuizKeyOf[field]])
                      => quizState.questions[i][field] = Null

\* C36 witness: the practice page holds a question made from a line without
\* a cell in one column, or the quiz holds a question made from a line with
\* an empty cell, and the field is null.
C36_Witness ==
    \/ /\ route = "pyqs"
       /\ Len(allQuestions) = 2
       /\ csvData[2].passage = Undef
       /\ allQuestions[2].passage = Null
    \/ /\ route = "quiz"
       /\ Len(quizState.questions) = 1
       /\ quizData[1]["Subject"] = Str(<<>>)
       /\ quizState.questions[1].subject = Null


\* C37: whenever a collection is loaded, the selected subject is empty or
\* an entry of the subject list, and the selected topic is empty or an
\* entry of the topic list (the lists are the ones derived for the selected
\* paper and subject; every selection was picked from the list its control
\* offered).
C37_SelectionOffered ==
    ~NothingLoaded(allQuestions, isLoadingCsv, csvError)
        => /\ \/ filters.subject = <<>>
              \/ \E i \in 1..Len(availableSubjects) :
                     availableSubjects[i] = Str(filters.subject)
           /\ \/ filters.topic = <<>>
              \/ \E i \in 1..Len(availableTopics) :
                     availableTopics[i] = Str(filters.topic)

\* C38: whenever a collection is loaded and no year, no id filter and no
\* search term is active, the displayed set is not empty (paper, subject
\* and topic are empty or were picked from the list offered at the time).
C38_CascadeNeverEmpty ==
    (/\ ~NothingLoaded(allQuestions, isLoadingCsv, csvError)
     /\ filters.year = <<>>
     /\ filters.id = <<>>
     /\ debouncedSearchTerm = <<>>)
        => Len(displayedQuestions) > 0


\* C39: every member of the submitted set is a position of the displayed
\* set, from 0 to its length less one; so the submitted set is empty
\* whenever the displayed set is.
C39_SubmittedArePositions ==
    /\ \A p \in submittedIndices : p >= 0 /\ p < Len(displayedQuestions)
    /\ Len(displayedQuestions) = 0 => submittedIndices = {}

\* C39 witness: every position of a displayed set of two questions has
\* been submitted.
C39_Witness ==
    /\ Len(displayedQuestions) = 2
    /\ submittedIndices = {0, 1}


\* C40: whenever the practice page is loading, has an error or has an
\* empty collection, the displayed set and the paper, subject, topic and
\* year lists are empty, currentIndex is 0, no option is selected and the
\* submitted set is empty.
C40_NothingLoadedIsEmpty ==
    (isLoadingCsv \/ csvError # NoError \/ Len(allQuestions) = 0)
        => /\ displayedQuestions = <<>>
           /\ availablePapers = <<>>
           /\ availableSubjects = <<>>
           /\ availableTopics = <<>>
           /\ availableYears = <<>>
           /\ currentIndex = 0
           /\ selectedOption = NoOption
           /\ submittedIndices = {}

\* C40 witness: the load was rejected for a decoded file with rows whose
\* first row lacks a required value, and the page shows nothing.
C40_Witness ==
    /\ route = "pyqs"
    /\ ~isLoadingCsv
    /\ csvError.kind = "missing"
    /\ Len(csvData) > 0
    /\ displayedQuestions = <<>>
    /\ availablePapers = <<>>

====
